---------------------------- MODULE Spec2Model ----------------------------
(***************************************************************************)
(* A model of the ruukh virtual DOM: the keyed/variant dispatch of         *)
(* dom_ruukh/src/lib.rs (KeyedVNodes, VNode, Key) and the component status *)
(* cell of src/component.rs (Status, Component, Lifecycle).                *)
(*                                                                         *)
(* Option<T> is modelled as a sequence of length at most one: None is <<>> *)
(* and Some(x) is <<x>>.  Result<(), JsValue> is the `err` flag of the     *)
(* world record that every engine operation threads through.               *)
(***************************************************************************)
EXTENDS Integers, Sequences, FiniteSets, TLC

VARIABLES
    root,       \* Option<KeyedVNodes>: the tree the application holds mounted
    dom,        \* the render target: node handle -> [kids, tag, text, attrs]
    comps,      \* component instances: id -> [props, state, events, status, hooks]
    pending,    \* re-render requests sent through rx_sender, not yet served
    log,        \* what the last call did: render-target operations and hooks
    ret,        \* the last call: its name, its arguments and what it returned
    armed       \* history of the set_state calls since the last
                \* take_state_dirty: called (there was one), mutating (one
                \* changed the value in the cell), dirtying (one left the cell
                \* different from the component's state fields)

vars == <<root, dom, comps, pending, log, ret, armed>>

Unarmed == [called |-> FALSE, mutating |-> FALSE, dirtying |-> FALSE]

(***************************************************************************)
(* Bounds of the model.                                                    *)
(***************************************************************************)
MaxState == 2       \* state values are 0..MaxState
MaxPending == 2     \* at most this many re-render requests in flight

None == <<>>
Some(x) == <<x>>
IsSome(o) == o # <<>>
Unwrap(o) == o[1]

(***************************************************************************)
(* src/component.rs: Status<T>.  rx_sender is the channel to the App; the  *)
(* messages it carries are counted by the variable `pending`.              *)
(***************************************************************************)
StatusNew(state) ==
    [state |-> state, state_dirty |-> FALSE, props_dirty |-> FALSE]

MarkStateDirtyWrongFlag(st) == [st EXCEPT !.props_dirty = TRUE]

MarkStateDirty(st) == [st EXCEPT !.state_dirty = TRUE]

\* take_state_dirty resetting both flags
TakeStateDirtyClearingBoth(st) ==
    [status |-> [st EXCEPT !.state_dirty = FALSE, !.props_dirty = FALSE],
     val |-> st.state_dirty]

TakeStateDirtyNoReset(st) ==
    [status |-> st, val |-> st.state_dirty]

\* returns the status after the call and the value returned
TakeStateDirty(st) ==
    IF st.state_dirty
    THEN [status |-> [st EXCEPT !.state_dirty = FALSE], val |-> TRUE]
    ELSE [status |-> st, val |-> FALSE]

MarkPropsDirtyWrongFlag(st) == [st EXCEPT !.state_dirty = TRUE]

MarkPropsDirty(st) == [st EXCEPT !.props_dirty = TRUE]

TakePropsDirtyNoReset(st) ==
    [status |-> st, val |-> st.props_dirty]

TakePropsDirty(st) ==
    IF st.props_dirty
    THEN [status |-> [st EXCEPT !.props_dirty = FALSE], val |-> TRUE]
    ELSE [status |-> st, val |-> FALSE]

StateAsRef(st) == st.state

\* state_as_mut hands out &mut state: the caller's write lands in the cell
StateAsMut(st, newState) == [st EXCEPT !.state = newState]

DoReactDropped(n) == n

\* do_react sends one message on rx_sender
DoReact(n) == n + 1

(***************************************************************************)
(* The Component trait (src/component.rs 73-159).  The trait only declares *)
(* init, update, refresh_state and set_state; their bodies are generated   *)
(* by #[component], so they are modelled from their documentation.         *)
(***************************************************************************)
States == 0..MaxState
Props == [a : {0, 1}, b : {0, 1}]
Events == {"e1", "e2"}
DefaultState == 0

\* a mutator is a closure FnMut(&mut State): assign a value, or count += 1
Mutators == [kind : {"set"}, v : States] \cup {[kind |-> "inc", v |-> 0]}

ApplyMutator(m, s) ==
    IF m.kind = "set" THEN m.v ELSE (s + 1) % (MaxState + 1)

\* how often created, mounted and destroyed were invoked on an instance
NoHooks == [created |-> 0, mounted |-> 0, destroyed |-> 0]

ComponentInit(props, events) ==
    [props |-> props, state |-> DefaultState, events |-> events,
     status |-> StatusNew(DefaultState), hooks |-> NoHooks]

PropsEq(p, q) == p.a = q.a /\ p.b = q.b

\* update: [comp, old]: the component after the call, and Option<Props>
ComponentUpdate(c, props, events) ==
    IF PropsEq(c.props, props)
    THEN [comp |-> [c EXCEPT !.events = events], old |-> None]
    ELSE [comp |-> [c EXCEPT !.props = props, !.events = events,
                             !.status = MarkPropsDirty(c.status)],
          old |-> Some(c.props)]

\* refresh_state leaving the state fields as they are
ComponentRefreshStateDropped(c) == c

ComponentRefreshState(c) == [c EXCEPT !.state = StateAsRef(c.status)]

ComponentTakeStateDirty(c) ==
    LET t == TakeStateDirty(c.status)
    IN [comp |-> [c EXCEPT !.status = t.status], val |-> t.val]

ComponentTakePropsDirty(c) ==
    LET t == TakePropsDirty(c.status)
    IN [comp |-> [c EXCEPT !.status = t.status], val |-> t.val]

\* set_state: [comp, sent]: the component after the call and the number of
\* messages on rx_sender after it (n before it)
ComponentSetState(c, m, n) ==
    LET mutated == StateAsMut(c.status, ApplyMutator(m, StateAsRef(c.status)))
        changed == StateAsRef(mutated) # c.state
        marked == IF changed THEN MarkStateDirty(mutated) ELSE mutated
    IN [comp |-> [c EXCEPT !.status = marked], sent |-> DoReact(n),
        changed |-> changed]

(***************************************************************************)
(* The render target (the web_api surface the engine calls).  A node       *)
(* handle is a natural number; Container is the parent the application     *)
(* mounts into.  dom maps every handle to its record; a removed node stays *)
(* in dom, detached, until the next top-level call starts.                 *)
(*                                                                         *)
(* The world record w threads the effects of one top-level call:           *)
(*   dom, comps   the render target and the component instances            *)
(*   log          the operations issued so far                             *)
(*   sent         the messages on rx_sender                                *)
(*   budget       the render target fails on its budget-th operation       *)
(*                (0: it never fails)                                      *)
(*   err          a Result::Err is being propagated by `?`                 *)
(***************************************************************************)
Container == 0

Ev(op, kind, h, parent, before, arg, old) ==
    [op |-> op, kind |-> kind, h |-> h, parent |-> parent, before |-> before,
     arg |-> arg, old |-> old, ok |-> TRUE]

\* an engine-level call or hook, recorded in the log (it cannot fail); link
\* is the Option it is about: a backing node, or a component instance
Note(w, op, kind, link, old) ==
    [w EXCEPT !.log = Append(@, Ev(op, kind, Container, Container, link, "", old))]

\* one render-target operation: it fails when the budget says so or when
\* the platform refuses it (`legal` is false); otherwise dom becomes `after`
RT(w, ev, legal, after) ==
    IF w.budget = 1 \/ ~legal
    THEN [w EXCEPT !.err = TRUE, !.budget = 0,
                   !.log = Append(@, [ev EXCEPT !.ok = FALSE])]
    ELSE [w EXCEPT !.dom = after, !.log = Append(@, ev),
                   !.budget = IF @ = 0 THEN 0 ELSE @ - 1]

Without(s, h) == SelectSeq(s, LAMBDA x : x # h)

IndexOf(s, h) == CHOOSE i \in 1..Len(s) : s[i] = h

Contains(s, h) == \E i \in 1..Len(s) : s[i] = h

InsertAt(s, i, h) == SubSeq(s, 1, i - 1) \o <<h>> \o SubSeq(s, i, Len(s))

FreshHandle(d) ==
    CHOOSE h \in 1..Cardinality(DOMAIN d) :
        /\ h \notin DOMAIN d
        /\ \A g \in 1..Cardinality(DOMAIN d) : g \notin DOMAIN d => h <= g

NewNode(tag, text) == [kids |-> <<>>, tag |-> tag, text |-> text, attrs |-> <<>>]

CreateText(w, content) ==
    LET h == FreshHandle(w.dom)
    IN [w |-> RT(w, Ev("create_text", "Text", h, Container, None, content, FALSE),
                 TRUE, w.dom @@ (h :> NewNode("#text", content))),
        h |-> h]

CreateElement(w, tag) ==
    LET h == FreshHandle(w.dom)
    IN [w |-> RT(w, Ev("create_element", "Element", h, Container, None, tag, FALSE),
                 TRUE, w.dom @@ (h :> NewNode(tag, ""))),
        h |-> h]

SetText(w, h, content) ==
    RT(w, Ev("set_text", "Text", h, Container, None, content, FALSE),
       h \in DOMAIN w.dom, [w.dom EXCEPT ![h].text = content])

AttrIndex(attrs, name) ==
    IF \E i \in 1..Len(attrs) : attrs[i].name = name
    THEN CHOOSE i \in 1..Len(attrs) : attrs[i].name = name
    ELSE 0

SetAttribute(w, h, a) ==
    LET cur == w.dom[h].attrs
        i == AttrIndex(cur, a.name)
    IN RT(w, Ev("set_attribute", a.name, h, Container, None, a.value, FALSE),
          h \in DOMAIN w.dom,
          [w.dom EXCEPT ![h].attrs =
              IF i = 0 THEN Append(cur, a) ELSE [cur EXCEPT ![i] = a]])

RemoveAttribute(w, h, name) ==
    RT(w, Ev("remove_attribute", name, h, Container, None, "", FALSE),
       h \in DOMAIN w.dom,
       [w.dom EXCEPT ![h].attrs = SelectSeq(@, LAMBDA x : x.name # name)])

\* insert_before(parent, node, reference), append(parent, node) when the
\* reference is None.  A node that already has a parent is moved.
InsertBefore(w, parent, h, next) ==
    LET detached == [p \in DOMAIN w.dom |->
                        [w.dom[p] EXCEPT !.kids = Without(@, h)]]
        sibs == detached[parent].kids
    IN RT(w, Ev("insert_before", "", h, parent, next, "", FALSE),
          /\ parent \in DOMAIN w.dom
          /\ h \in DOMAIN w.dom
          /\ next # None => (next[1] # h /\ Contains(w.dom[parent].kids, next[1])),
          [detached EXCEPT ![parent].kids =
              IF next = None THEN Append(sibs, h)
              ELSE InsertAt(sibs, IndexOf(sibs, next[1]), h)])

RemoveChild(w, parent, h) ==
    RT(w, Ev("remove_child", "", h, parent, None, "", FALSE),
       parent \in DOMAIN w.dom /\ Contains(w.dom[parent].kids, h),
       [w.dom EXCEPT ![parent].kids = Without(@, h)])

\* Some(the node after h under parent), None when h is the last child
NextSibling(d, parent, h) ==
    LET s == d[parent].kids
        i == IndexOf(s, h)
    IN IF i = Len(s) THEN None ELSE Some(s[i + 1])

InPlace(d, parent, h, next) ==
    Contains(d[parent].kids, h) /\ NextSibling(d, parent, h) = next

(***************************************************************************)
(* dom_ruukh/src/lib.rs: Key, KeyedVNodes and VNode.  A Key is a variant   *)
(* and a value; the value of a String key is the number of the string.     *)
(***************************************************************************)
KeyI64(v) == [variant |-> "I64", value |-> v]
KeyU64(v) == [variant |-> "U64", value |-> v]
KeyString(v) == [variant |-> "String", value |-> v]

KeyEqValueOnly(k1, k2) == k1.value = k2.value

\* #[derive(Eq, PartialEq)] on enum Key
KeyEq(k1, k2) == k1.variant = k2.variant /\ k1.value = k2.value

\* Option<Key> == Option<Key>
OptKeyEq(a, b) ==
    IF a = None \/ b = None THEN a = None /\ b = None
    ELSE KeyEq(a[1], b[1])

Keyed(key, vnode) == [key |-> Some(key), vnode |-> vnode]
Unkeyed(vnode) == [key |-> None, vnode |-> vnode]

VText(content) == [kind |-> "Text", content |-> content, node |-> None]
VElement(tag, attrs, child) ==
    [kind |-> "Element", tag |-> tag, attrs |-> attrs, child |-> child,
     node |-> None]
VList(children) == [kind |-> "List", children |-> children, node |-> None]
VComponent(props, events) ==
    [kind |-> "Component", props |-> props, events |-> events, inst |-> None,
     cached |-> None, node |-> None]

\* VNodeNode answering None whatever the variant holds
VNodeNodeAbsent(n) == None

\* DOMInfo::node
VNodeNode(n) == n.node
KeyedNode(k) == VNodeNode(k.vnode)

R(w, n) == [w |-> w, n |-> n]

RECURSIVE KeyedPatch(_, _, _, _, _)
RECURSIVE VNodePatch(_, _, _, _, _)
RECURSIVE KeyedRemove(_, _, _)
RECURSIVE VNodeRemove(_, _, _)
RECURSIVE ElementPatch(_, _, _, _, _)
RECURSIVE ListPatch(_, _, _, _, _)
RECURSIVE ComponentPatch(_, _, _, _, _)
RECURSIVE ListMountFrom(_, _, _, _, _)
RECURSIVE ListPatchFrom(_, _, _, _, _, _, _)
RECURSIVE ListRemoveFrom(_, _, _, _, _)

(***************************************************************************)
(* The per-kind operations (vtext, velement, vlist, vcomponent).           *)
(***************************************************************************)
TextMount(w, new, parent, next) ==
    LET c == CreateText(w, new.content)
        w2 == InsertBefore(c.w, parent, c.h, next)
    IN IF c.w.err THEN R(c.w, new)
       ELSE IF w2.err THEN R(w2, new)
       ELSE R(w2, [new EXCEPT !.node = Some(c.h)])

TextPatch(w, new, old, parent, next) ==
    IF old = None THEN TextMount(w, new, parent, next)
    ELSE LET h == old[1].node[1]
             w1 == IF old[1].content # new.content
                   THEN SetText(w, h, new.content) ELSE w
         IN IF w1.err THEN R(w1, new)
            ELSE R(w1, [new EXCEPT !.node = Some(h)])

TextRemove(w, n, parent) == RemoveChild(w, parent, n.node[1])

RECURSIVE SetAttrsFrom(_, _, _, _)
SetAttrsFrom(w, h, attrs, i) ==
    IF i > Len(attrs) \/ w.err THEN w
    ELSE SetAttrsFrom(SetAttribute(w, h, attrs[i]), h, attrs, i + 1)

\* the attributes added or changed, by name
ChangedAttrs(new, old) ==
    SelectSeq(new, LAMBDA a :
        LET i == AttrIndex(old, a.name)
        IN i = 0 \/ old[i].value # a.value)

RECURSIVE RemoveAttrsFrom(_, _, _, _, _)
RemoveAttrsFrom(w, h, new, old, i) ==
    IF i > Len(old) \/ w.err THEN w
    ELSE RemoveAttrsFrom(
            IF AttrIndex(new, old[i].name) = 0
            THEN RemoveAttribute(w, h, old[i].name) ELSE w,
            h, new, old, i + 1)

ElementMount(w, new, parent, next) ==
    LET c == CreateElement(w, new.tag)
        w2 == SetAttrsFrom(c.w, c.h, new.attrs, 1)
        r == VNodePatch(w2, new.child, None, c.h, None)
        w4 == InsertBefore(r.w, parent, c.h, next)
    IN IF c.w.err THEN R(c.w, new)
       ELSE IF w2.err THEN R(w2, [new EXCEPT !.node = Some(c.h)])
       ELSE IF r.w.err
            THEN R(r.w, [new EXCEPT !.node = Some(c.h), !.child = r.n])
       ELSE R(w4, [new EXCEPT !.node = Some(c.h), !.child = r.n])

ElementRemove(w, n, parent) ==
    LET w1 == VNodeRemove(w, n.child, n.node[1])
    IN IF w1.err THEN w1 ELSE RemoveChild(w1, parent, n.node[1])

ElementPatch(w, new, old, parent, next) ==
    LET replace == old # None /\ old[1].tag # new.tag
        w0 == IF replace THEN ElementRemove(w, old[1], parent) ELSE w
        h == old[1].node[1]
        w1 == SetAttrsFrom(w, h, ChangedAttrs(new.attrs, old[1].attrs), 1)
        w2 == RemoveAttrsFrom(w1, h, new.attrs, old[1].attrs, 1)
        r == VNodePatch(w2, new.child, Some(old[1].child), h, None)
    IN IF w0.err THEN R(w0, new)
       ELSE IF old = None \/ replace THEN ElementMount(w0, new, parent, next)
       ELSE IF w1.err THEN R(w1, [new EXCEPT !.node = Some(h)])
       ELSE IF w2.err THEN R(w2, [new EXCEPT !.node = Some(h)])
       ELSE R(r.w, [new EXCEPT !.node = Some(h), !.child = r.n])

\* the running next-sibling pointer after child k has been placed
NextAfter(k, next) == IF KeyedNode(k) = None THEN next ELSE KeyedNode(k)

\* first mount of a list: the children from the last to the first, each one
\* inserted before the node of the child that follows it
ListMountFrom(w, kids, i, parent, next) ==
    IF i = 0 THEN R(w, kids)
    ELSE LET r == KeyedPatch(w, kids[i], None, parent, next)
             done == [kids EXCEPT ![i] = r.n]
         IN IF r.w.err THEN R(r.w, done)
            ELSE ListMountFrom(r.w, done, i - 1, parent, NextAfter(r.n, next))

\* the lookup from Key to position in the old children (0: no such key)
KeyLookup(oldKids, key) ==
    LET hits == {j \in 1..Len(oldKids) :
                    oldKids[j].key # None /\ KeyEq(oldKids[j].key[1], key)}
    IN IF hits = {} THEN 0
       ELSE CHOOSE j \in hits : \A k \in hits : j <= k

\* for the new children i.., in order, the old child each one is matched
\* with (0: none): an unkeyed child with the old child at its index, a keyed
\* child with the old child of its key; an old child is matched once
RECURSIVE MatchFrom(_, _, _, _)
MatchFrom(newKids, oldKids, i, used) ==
    IF i > Len(newKids) THEN <<>>
    ELSE LET cand == IF newKids[i].key = None
                     THEN (IF i <= Len(oldKids) THEN i ELSE 0)
                     ELSE KeyLookup(oldKids, newKids[i].key[1])
             j == IF cand \in used THEN 0 ELSE cand
         IN <<j>> \o MatchFrom(newKids, oldKids, i + 1, used \cup {j})

\* the keyed diff: the new children from the last to the first, each patched
\* against its match and then moved before the running next-sibling pointer
\* unless it already sits there
ListPatchFrom(w, kids, oldKids, m, i, parent, next) ==
    IF i = 0 THEN R(w, kids)
    ELSE LET old == IF m[i] = 0 THEN None ELSE Some(oldKids[m[i]])
             r == KeyedPatch(w, kids[i], old, parent, next)
             done == [kids EXCEPT ![i] = r.n]
             h == KeyedNode(r.n)
             w2 == IF h # None /\ ~InPlace(r.w.dom, parent, h[1], next)
                   THEN InsertBefore(r.w, parent, h[1], next) ELSE r.w
         IN IF r.w.err THEN R(r.w, done)
            ELSE IF w2.err THEN R(w2, done)
            ELSE ListPatchFrom(w2, done, oldKids, m, i - 1, parent,
                               NextAfter(r.n, next))

\* the old children no new child was matched with are removed
ListRemoveFrom(w, oldKids, m, j, parent) ==
    IF j > Len(oldKids) \/ w.err THEN w
    ELSE ListRemoveFrom(
            IF Contains(m, j) THEN w ELSE KeyedRemove(w, oldKids[j], parent),
            oldKids, m, j + 1, parent)

FirstNode(kids) == IF kids = <<>> THEN None ELSE KeyedNode(kids[1])

ListPatch(w, new, old, parent, next) ==
    IF old = None
    THEN LET r == ListMountFrom(w, new.children, Len(new.children), parent, next)
         IN R(r.w, [new EXCEPT !.children = r.n, !.node = FirstNode(r.n)])
    ELSE LET m == MatchFrom(new.children, old[1].children, 1, {})
             r == ListPatchFrom(w, new.children, old[1].children, m,
                                Len(new.children), parent, next)
             w2 == ListRemoveFrom(r.w, old[1].children, m, 1, parent)
         IN IF r.w.err THEN R(r.w, [new EXCEPT !.children = r.n])
            ELSE R(w2, [new EXCEPT !.children = r.n, !.node = FirstNode(r.n)])

ListRemove(w, n, parent) ==
    ListRemoveFrom(w, n.children, <<>>, 1, parent)

\* the user's render step: the markup shows the props and the state fields
Render(c) == Unkeyed(VText(ToString(<<c.props.a, c.props.b, c.state>>)))

FreshInst(cs) ==
    CHOOSE i \in 1..(Cardinality(DOMAIN cs) + 1) :
        /\ i \notin DOMAIN cs
        /\ \A j \in 1..(Cardinality(DOMAIN cs) + 1) : j \notin DOMAIN cs => i <= j

\* a lifecycle hook of src/component.rs 232-245 is invoked on instance id
Hook(w, id, name) ==
    Note([w EXCEPT !.comps[id].hooks[name] = @ + 1], "hook", name, Some(id), FALSE)

\* updated(old_props)
HookUpdated(w, id, oldProps) ==
    [w EXCEPT !.log = Append(@, Ev("hook", "updated", Container, Container,
                                   Some(id), ToString(oldProps), FALSE))]

\* refresh_state, then the render step
RenderStep(w, id) ==
    LET w1 == Note([w EXCEPT !.comps[id] = ComponentRefreshState(@)],
                   "refresh_state", "Component", Some(id), FALSE)
    IN R(Note(w1, "render", "Component", Some(id), FALSE), Render(w1.comps[id]))

ComponentMount(w, new, parent, next) ==
    LET id == FreshInst(w.comps)
        w1 == Note([w EXCEPT !.comps = @ @@ (id :> ComponentInit(new.props, new.events))],
                   "init", "Component", Some(id), FALSE)
        rs == RenderStep(w1, id)
        w2 == Hook(rs.w, id, "created")
        r == KeyedPatch(w2, rs.n, None, parent, next)
        linked == [new EXCEPT !.inst = Some(id), !.cached = Some(r.n),
                              !.node = KeyedNode(r.n)]
    IN IF r.w.err THEN R(r.w, linked)
       ELSE R(Hook(r.w, id, "mounted"), linked)

ComponentPatch(w, new, old, parent, next) ==
    IF old = None THEN ComponentMount(w, new, parent, next)
    ELSE LET id == old[1].inst[1]
             u == ComponentUpdate(w.comps[id], new.props, new.events)
             tp == ComponentTakePropsDirty(u.comp)
             ts == ComponentTakeStateDirty(tp.comp)
             w1 == Note([w EXCEPT !.comps[id] = ts.comp], "update",
                        "Component", Some(id), tp.val \/ ts.val)
             rs == RenderStep(w1, id)
             r == KeyedPatch(rs.w, rs.n, old[1].cached, parent, next)
             kept == [new EXCEPT !.inst = Some(id), !.cached = old[1].cached,
                                 !.node = old[1].node]
             fresh == [new EXCEPT !.inst = Some(id), !.cached = Some(r.n),
                                  !.node = KeyedNode(r.n)]
         IN IF ~(tp.val \/ ts.val)
            THEN R(w1, kept)
            ELSE IF r.w.err THEN R(r.w, fresh)
            ELSE IF tp.val THEN R(HookUpdated(r.w, id, u.old[1]), fresh)
            ELSE R(r.w, fresh)

ComponentRemove(w, n, parent) ==
    KeyedRemove(Hook(w, n.inst[1], "destroyed"), n.cached[1], parent)

(***************************************************************************)
(* dom_ruukh/src/lib.rs: the dispatch over the node kinds.  Every call     *)
(* into a kind's patch or remove is noted in the log: "patch" with         *)
(* old = TRUE when an old node is handed over, "remove" with the backing   *)
(* node of the node removed.                                               *)
(***************************************************************************)
\* KindPatch with the Text arm of VNode::patch doing what the Text arm of
\* VNode::render_walk does: nothing
KindPatchTextAsWalk(w, new, old, parent, next) ==
    LET w1 == Note(w, "patch", new.kind,
                   IF old = None THEN None ELSE VNodeNode(old[1]), old # None)
    IN CASE new.kind = "Text" -> R(w1, new)
         [] new.kind = "Element" -> ElementPatch(w1, new, old, parent, next)
         [] new.kind = "List" -> ListPatch(w1, new, old, parent, next)
         [] new.kind = "Component" -> ComponentPatch(w1, new, old, parent, next)

\* $this.patch($old, $parent, $next, $render_ctx) of the variant's type
KindPatch(w, new, old, parent, next) ==
    LET w1 == Note(w, "patch", new.kind,
                   IF old = None THEN None ELSE VNodeNode(old[1]), old # None)
    IN CASE new.kind = "Text" -> TextPatch(w1, new, old, parent, next)
         [] new.kind = "Element" -> ElementPatch(w1, new, old, parent, next)
         [] new.kind = "List" -> ListPatch(w1, new, old, parent, next)
         [] new.kind = "Component" -> ComponentPatch(w1, new, old, parent, next)

\* VNodeRemove with every arm doing what the Text arm does: the node's
\* backing node is detached, nothing below it is torn down
VNodeRemoveOwnNodeOnly(w, n, parent) ==
    LET w1 == Note(w, "remove", n.kind, VNodeNode(n), FALSE)
    IN IF VNodeNode(n) = None THEN w1 ELSE RemoveChild(w1, parent, n.node[1])

\* impl DOMRemove for VNode
VNodeRemove(w, n, parent) ==
    LET w1 == Note(w, "remove", n.kind, VNodeNode(n), FALSE)
    IN CASE n.kind = "Text" -> TextRemove(w1, n, parent)
         [] n.kind = "Element" -> ElementRemove(w1, n, parent)
         [] n.kind = "List" -> ListRemove(w1, n, parent)
         [] n.kind = "Component" -> ComponentRemove(w1, n, parent)

\* impl DOMRemove for KeyedVNodes
KeyedRemove(w, k, parent) == VNodeRemove(w, k.vnode, parent)

\* VNodePatch with the None arm of patch! doing nothing
VNodePatchNoMount(w, new, old, parent, next) ==
    LET same == old # None /\ old[1].kind = new.kind
        w1 == IF old # None /\ ~same THEN VNodeRemove(w, old[1], parent) ELSE w
    IN IF w1.err \/ old = None THEN R(w1, new)
       ELSE KindPatch(w1, new, IF same THEN old ELSE None, parent, next)

\* VNodePatch without the `?` after old.remove(..): the error of the remove
\* is dropped and the new node is patched all the same
VNodePatchDroppingError(w, new, old, parent, next) ==
    LET same == old # None /\ old[1].kind = new.kind
        w1 == IF old # None /\ ~same THEN VNodeRemove(w, old[1], parent) ELSE w
    IN KindPatch(w1, new, IF same THEN old ELSE None, parent, next)

\* VNodePatch with the first arm of patch! taken for the second: the old
\* node is removed and the new one mounted whatever the old node's variant
VNodePatchRemount(w, new, old, parent, next) ==
    LET w1 == IF old # None THEN VNodeRemove(w, old[1], parent) ELSE w
    IN IF w1.err THEN R(w1, new)
       ELSE KindPatch(w1, new, None, parent, next)

\* impl DOMPatch for VNode: patch, with the patch! macro expanded.  The
\* three arms of the macro end in the same call, $this.patch(..), with
\* Some(old) in the first arm and None in the other two; the second arm
\* removes the old node first, and `?` returns its error.
VNodePatch(w, new, old, parent, next) ==
    LET same == old # None /\ old[1].kind = new.kind
        w1 == IF old # None /\ ~same THEN VNodeRemove(w, old[1], parent) ELSE w
    IN IF w1.err THEN R(w1, new)
       ELSE KindPatch(w1, new, IF same THEN old ELSE None, parent, next)

Rekey(r, new) == R(r.w, [new EXCEPT !.vnode = r.n])

\* KeyedPatch without the comparison of the keys
KeyedPatchIgnoringKeys(w, new, old, parent, next) ==
    Rekey(VNodePatch(w, new.vnode,
                     IF old # None THEN Some(old[1].vnode) ELSE None,
                     parent, next), new)

\* KeyedPatch handing old.vnode down after it has removed it for its key
KeyedPatchPassingOldDown(w, new, old, parent, next) ==
    LET same == old # None /\ OptKeyEq(new.key, old[1].key)
        w1 == IF old # None /\ ~same
              THEN VNodeRemove(w, old[1].vnode, parent) ELSE w
    IN IF w1.err THEN R(w1, new)
       ELSE Rekey(VNodePatch(w1, new.vnode,
                             IF old # None THEN Some(old[1].vnode) ELSE None,
                             parent, next), new)

\* KeyedPatch with the comparison of the keys inverted
KeyedPatchInverted(w, new, old, parent, next) ==
    LET same == old # None /\ ~OptKeyEq(new.key, old[1].key)
        w1 == IF old # None /\ ~same
              THEN VNodeRemove(w, old[1].vnode, parent) ELSE w
    IN IF w1.err THEN R(w1, new)
       ELSE Rekey(VNodePatch(w1, new.vnode,
                             IF same THEN Some(old[1].vnode) ELSE None,
                             parent, next), new)

\* impl DOMPatch for KeyedVNodes: patch.  The three branches end in the same
\* call, self.vnode.patch(..), with Some(old.vnode) when the keys are equal
\* and None otherwise; the branch of unequal keys removes old.vnode first,
\* and `?` returns its error.
KeyedPatch(w, new, old, parent, next) ==
    LET same == old # None /\ OptKeyEq(new.key, old[1].key)
        w1 == IF old # None /\ ~same
              THEN VNodeRemove(w, old[1].vnode, parent) ELSE w
    IN IF w1.err THEN R(w1, new)
       ELSE Rekey(VNodePatch(w1, new.vnode,
                             IF same THEN Some(old[1].vnode) ELSE None,
                             parent, next), new)

(***************************************************************************)
(* render_walk.  The dispatch is that of lib.rs; a Text node has nothing   *)
(* to render.  The walks of the other variants are modelled as the descent *)
(* to the nodes below: the render of the components is part of their patch *)
(* in this model, so that the walk finds nothing left to render.           *)
(***************************************************************************)
RECURSIVE VNodeRenderWalk(_, _, _, _)

\* impl DOMPatch for KeyedVNodes: render_walk
KeyedRenderWalk(w, k, parent, next) == VNodeRenderWalk(w, k.vnode, parent, next)

RECURSIVE ListRenderWalkFrom(_, _, _, _, _)
ListRenderWalkFrom(w, kids, i, parent, next) ==
    IF i > Len(kids) \/ w.err THEN w
    ELSE ListRenderWalkFrom(KeyedRenderWalk(w, kids[i], parent, next),
                            kids, i + 1, parent, next)

\* the nodes a variant's render_walk descends to
Below(n) ==
    CASE n.kind = "Element" -> <<Unkeyed(n.child)>>
      [] n.kind = "List" -> n.children
      [] n.kind = "Component" -> n.cached

\* the parent of the nodes below n
ParentBelow(n, parent) ==
    IF n.kind = "Element" /\ n.node # None THEN n.node[1] ELSE parent

\* impl DOMPatch for VNode: render_walk
VNodeRenderWalk(w, n, parent, next) ==
    CASE n.kind = "Element" -> ListRenderWalkFrom(w, Below(n), 1, ParentBelow(n, parent), next)
      [] n.kind = "List" -> ListRenderWalkFrom(w, Below(n), 1, ParentBelow(n, parent), next)
      [] n.kind = "Component" -> ListRenderWalkFrom(w, Below(n), 1, ParentBelow(n, parent), next)
      [] n.kind = "Text" -> w

(***************************************************************************)
(* The application: it holds the mounted tree and calls patch with a new   *)
(* tree, or remove.  Inputs are drawn from Trees; the render target may    *)
(* fail on any of the first MaxFailAt operations of a call.  After a       *)
(* failed call the application makes no further call.                      *)
(***************************************************************************)
MaxLen == 2         \* children of an input list
MaxFailAt == 2      \* the latest operation of a call that may fail

K1 == KeyI64(1)
K2 == KeyU64(1)
K3 == KeyI64(2)

Attr(name, value) == [name |-> name, value |-> value]

Leaves ==
    { VText("a"), VText("b"),
      VElement("div", <<>>, VText("a")),
      VElement("div", <<Attr("id", "x")>>, VList(<<Unkeyed(VText("b"))>>)),
      VElement("p", <<>>, VText("a")) }
    \cup { VComponent(p, "e1") : p \in {[a |-> 0, b |-> 0], [a |-> 0, b |-> 1]} }

\* the children an input list is made of
Pool ==
    { Keyed(K1, VText("a")), Keyed(K2, VText("b")),
      Unkeyed(VComponent([a |-> 0, b |-> 0], "e1")) }

UniqueKeys(kids) ==
    \A i, j \in 1..Len(kids) :
        (i # j /\ kids[i].key # None /\ kids[j].key # None)
            => ~KeyEq(kids[i].key[1], kids[j].key[1])

ListsOf(pool, n) ==
    { VList(kids) : kids \in { k \in UNION { [1..m -> pool] : m \in 0..n } :
                                  UniqueKeys(k) } }

Trees ==
    { Unkeyed(v) : v \in Leaves \cup ListsOf(Pool, MaxLen) }
    \cup { Keyed(k, v) : k \in {K1, K2},
                          v \in { VText("a"), VElement("div", <<>>, VText("a")),
                                  VComponent([a |-> 0, b |-> 0], "e1") } }

RECURSIVE Reach(_, _)
Reach(d, h) == {h} \cup UNION { Reach(d, d[h].kids[i]) : i \in 1..Len(d[h].kids) }

\* the world a top-level call starts from: the nodes that earlier calls
\* detached are gone
StartWorld(f) ==
    [dom |-> [h \in Reach(dom, Container) |-> dom[h]], comps |-> comps,
     log |-> <<>>, sent |-> pending, budget |-> f, err |-> FALSE]

\* the instances that were destroyed before the call started are dropped
\* when it ends
Alive(cs) ==
    LET gone == {j \in DOMAIN comps : comps[j].hooks.destroyed > 0}
    IN [i \in DOMAIN cs \ gone |-> cs[i]]

Init ==
    /\ root = None
    /\ dom = (Container :> NewNode("#root", ""))
    /\ comps = <<>>
    /\ pending = 0
    /\ log = <<>>
    /\ ret = [op |-> "init", ok |-> TRUE, old |-> None]
    /\ armed = Unarmed

Finish(op, w, newRoot) ==
    /\ root' = newRoot
    /\ dom' = w.dom
    /\ comps' = Alive(w.comps)
    /\ pending' = w.sent
    /\ log' = w.log
    /\ ret' = [op |-> op, ok |-> ~w.err, old |-> root]
    /\ UNCHANGED armed

\* first render: the tree is patched with no old tree
Mount(t, f) ==
    /\ ret.ok /\ root = None
    /\ LET r == KeyedPatch(StartWorld(f), t, None, Container, None)
       IN Finish("mount", r.w, Some(r.n))

\* a later render: the new tree is patched against the mounted one
Patch(t, f) ==
    /\ ret.ok /\ root # None
    /\ LET r == KeyedPatch(StartWorld(f), t, root, Container, None)
       IN Finish("patch", r.w, Some(r.n))

Remove(f) ==
    /\ ret.ok /\ root # None
    /\ Finish("remove", KeyedRemove(StartWorld(f), root[1], Container), None)

\* the App walks the mounted tree to render what is left to render
RenderWalk ==
    /\ ret.ok /\ root # None
    /\ Finish("render_walk", KeyedRenderWalk(StartWorld(0), root[1], Container, None),
              root)

Next ==
    \/ \E t \in Trees, f \in 0..MaxFailAt : Mount(t, f)
    \/ \E t \in Trees, f \in 0..MaxFailAt : Patch(t, f)
    \/ \E f \in 0..MaxFailAt : Remove(f)
    \/ RenderWalk

Spec == Init /\ [][Next]_vars

(***************************************************************************)
(* Components in the tree: the application mounts, patches and removes     *)
(* trees of components, event handlers call set_state, and the App serves  *)
(* each re-render request with a render pass: it patches the mounted tree  *)
(* against a new tree of the same shape, props and events.                 *)
(***************************************************************************)
P00 == [a |-> 0, b |-> 0]
P01 == [a |-> 0, b |-> 1]

CompPool ==
    { Keyed(K1, VComponent(P00, "e1")), Keyed(K2, VComponent(P01, "e1")) }

\* what the event handlers of the mounted components do to the state
HandlerMutators == { m \in Mutators : m.kind = "set" /\ m.v <= 1 }

CompTrees ==
    { Unkeyed(VComponent(P00, "e1")), Unkeyed(VComponent(P00, "e2")),
      Unkeyed(VComponent(P01, "e1")), Unkeyed(VText("a")) }
    \cup { Unkeyed(v) : v \in ListsOf(CompPool, MaxLen) }

\* the tree as the application builds it again: no backing node, no instance
RECURSIVE Shell(_)
Shell(v) ==
    CASE v.kind = "Text" -> VText(v.content)
      [] v.kind = "Element" -> VElement(v.tag, v.attrs, Shell(v.child))
      [] v.kind = "List" ->
            VList([i \in 1..Len(v.children) |->
                      [key |-> v.children[i].key,
                       vnode |-> Shell(v.children[i].vnode)]])
      [] v.kind = "Component" -> VComponent(v.props, v.events)

\* the mounted components' instances
RECURSIVE Instances(_)
Instances(v) ==
    CASE v.kind = "Text" -> {}
      [] v.kind = "Element" -> Instances(v.child)
      [] v.kind = "List" ->
            UNION { Instances(v.children[i].vnode) : i \in 1..Len(v.children) }
      [] v.kind = "Component" ->
            IF v.inst = None THEN {}
            ELSE {v.inst[1]} \cup
                 (IF v.cached = None THEN {} ELSE Instances(v.cached[1].vnode))

\* the instances that can exist during a call: those of the tree mounted
\* and those of the tree that replaces it
InstIds == 1..(2 * MaxLen)

\* an event handler of a mounted component calls set_state
SetStateIn(id, m) ==
    /\ ret.ok /\ root # None /\ pending < MaxPending
    /\ id \in Instances(root[1].vnode)
    /\ LET w == StartWorld(0)
           r == ComponentSetState(comps[id], m, pending)
       IN Finish("set_state", [w EXCEPT !.comps[id] = r.comp, !.sent = r.sent], root)

\* the App takes one re-render request off the channel and runs a render pass
RenderPass ==
    /\ ret.ok /\ pending > 0
    /\ IF root = None
       THEN Finish("render_pass", [StartWorld(0) EXCEPT !.sent = pending - 1], root)
       ELSE LET w == [StartWorld(0) EXCEPT !.sent = pending - 1]
                t == [key |-> root[1].key, vnode |-> Shell(root[1].vnode)]
                r == KeyedPatch(w, t, root, Container, None)
            IN Finish("render_pass", r.w, Some(r.n))

NextComp ==
    \/ \E t \in CompTrees : Mount(t, 0)
    \/ \E t \in CompTrees : Patch(t, 0)
    \/ Remove(0)
    \/ \E id \in InstIds, m \in HandlerMutators : SetStateIn(id, m)
    \/ RenderPass

SpecComp == Init /\ [][NextComp]_vars

\* the components stay mounted; every re-render request is served in the end
NextLive ==
    \/ \E t \in CompTrees : Mount(t, 0)
    \/ \E id \in InstIds, m \in HandlerMutators : SetStateIn(id, m)
    \/ RenderPass

\* a RenderPass step by what it does to the channel and to ret: RenderPass
\* is enabled exactly when this is (a request is pending after a call that
\* succeeded), and a step of NextLive is a RenderPass step exactly when it
\* is one of these (no other action leaves "render_pass" in ret)
RenderPassStep ==
    /\ ret.ok /\ pending > 0
    /\ pending' = pending - 1
    /\ \E ok \in BOOLEAN : ret' = [op |-> "render_pass", ok |-> ok, old |-> root]

\* the App's loop takes every message off the channel in the end: weak
\* fairness of the render pass
SpecLive == Init /\ [][NextLive]_vars /\ WF_<<pending, ret>>(RenderPassStep)

(***************************************************************************)
(* The keyed diff on its own: lists of keyed and unkeyed Text children,    *)
(* patched against one another; the render target does not fail.  Each     *)
(* list is mounted fresh and then patched once: the diff reads node        *)
(* handles only to compare them, so a list that earlier patches left       *)
(* mounted differs from the freshly mounted one by a renaming of handles.  *)
(***************************************************************************)
MaxListLen == 3     \* children of a list of ListTrees

ListPool ==
    { Keyed(K1, VText("a")), Keyed(K1, VText("a changed")),
      Keyed(K2, VText("b")), Keyed(K3, VText("c")), Unkeyed(VText("u")) }

ListTrees == { Unkeyed(v) : v \in ListsOf(ListPool, MaxListLen) }

PatchMounted(t) == ret.op = "mount" /\ Patch(t, 0)

NextList ==
    \/ \E t \in ListTrees : Mount(t, 0)
    \/ \E t \in ListTrees : PatchMounted(t)
    \/ Remove(0)

SpecList == Init /\ [][NextList]_vars

(***************************************************************************)
(* The component API called directly on one instance (id 1), in any order. *)
(***************************************************************************)
TheComp == 1

InitStatus ==
    /\ root = None
    /\ dom = <<>>
    /\ \E p \in Props, e \in Events : comps = <<ComponentInit(p, e)>>
    /\ pending = 0
    /\ log = <<>>
    /\ ret = [op |-> "init"]
    /\ armed = Unarmed

SetState(m) ==
    /\ pending < MaxPending
    /\ LET r == ComponentSetState(comps[TheComp], m, pending)
       IN /\ comps' = [comps EXCEPT ![TheComp] = r.comp]
          /\ pending' = r.sent
          /\ ret' = [op |-> "set_state", changed |-> r.changed, m |-> m]
          /\ armed' = [called |-> TRUE,
                        mutating |-> armed.mutating
                            \/ StateAsRef(r.comp.status) # StateAsRef(comps[TheComp].status),
                        dirtying |-> armed.dirtying \/ r.changed]
    /\ UNCHANGED <<root, dom, log>>

Update(p, e) ==
    /\ LET r == ComponentUpdate(comps[TheComp], p, e)
       IN /\ comps' = [comps EXCEPT ![TheComp] = r.comp]
          /\ ret' = [op |-> "update", old |-> r.old, props |-> p, events |-> e]
    /\ UNCHANGED <<root, dom, pending, log, armed>>

CallTakeStateDirty ==
    /\ LET r == ComponentTakeStateDirty(comps[TheComp])
       IN /\ comps' = [comps EXCEPT ![TheComp] = r.comp]
          /\ ret' = [op |-> "take_state_dirty", val |-> r.val]
    /\ armed' = Unarmed
    /\ UNCHANGED <<root, dom, pending, log>>

CallTakePropsDirty ==
    /\ LET r == ComponentTakePropsDirty(comps[TheComp])
       IN /\ comps' = [comps EXCEPT ![TheComp] = r.comp]
          /\ ret' = [op |-> "take_props_dirty", val |-> r.val]
    /\ UNCHANGED <<root, dom, pending, log, armed>>

CallRefreshState ==
    /\ comps' = [comps EXCEPT ![TheComp] = ComponentRefreshState(@)]
    /\ ret' = [op |-> "refresh_state"]
    /\ UNCHANGED <<root, dom, pending, log, armed>>

\* the App takes one message off the channel
Receive ==
    /\ pending > 0
    /\ pending' = pending - 1
    /\ ret' = [op |-> "receive"]
    /\ UNCHANGED <<root, dom, comps, log, armed>>

NextStatus ==
    \/ \E m \in Mutators : SetState(m)
    \/ \E p \in Props, e \in Events : Update(p, e)
    \/ CallTakeStateDirty
    \/ CallTakePropsDirty
    \/ CallRefreshState
    \/ Receive

SpecStatus == InitStatus /\ [][NextStatus]_vars

(***************************************************************************)
(* Keys on their own: impl From<..> for Key (the convert! macro and        *)
(* From<&str>), and the derived equality.  An integer handed to            *)
(* Key::from is a type and a value of that type; `num as i64` and          *)
(* `num as u64` widen it, which keeps the value.                           *)
(***************************************************************************)
MaxKey == 2     \* the integers handed to Key::from are -MaxKey..MaxKey

SignedTypes == {"i8", "i16", "i32", "i64"}
UnsignedTypes == {"u8", "u16", "u32", "u64"}

\* the integers of a type, among the small ones
ValuesOf(ty) == IF ty \in SignedTypes THEN (0 - MaxKey)..MaxKey ELSE 0..MaxKey

TypedInts ==
    { x \in [ty : SignedTypes \cup UnsignedTypes, v : (0 - MaxKey)..MaxKey] :
        x.v \in ValuesOf(x.ty) }

\* the strings handed to Key::from, by number
Strs == { [ty |-> "str", v |-> n] : n \in 1..MaxKey }

\* the variant chosen by the sign of the number, not by its type
KeyFromByValue(x) ==
    IF x.ty = "str" THEN KeyString(x.v)
    ELSE IF x.v < 0 THEN KeyI64(x.v) ELSE KeyU64(x.v)

\* Key::from(num) for the types of convert!, Key::from(string) for &str
KeyFrom(x) ==
    CASE x.ty \in SignedTypes -> KeyI64(x.v)
      [] x.ty \in UnsignedTypes -> KeyU64(x.v)
      [] x.ty = "str" -> KeyString(x.v)

InitKey ==
    /\ root = None
    /\ dom = <<>>
    /\ comps = <<>>
    /\ pending = 0
    /\ log = <<>>
    /\ ret = [op |-> "init"]
    /\ armed = Unarmed

\* Key::from(x)
Convert(x) ==
    /\ ret' = [op |-> "from", x |-> x, key |-> KeyFrom(x)]
    /\ UNCHANGED <<root, dom, comps, pending, log, armed>>

\* Key::from(x) == Key::from(y)
Compare(x, y) ==
    /\ ret' = [op |-> "eq", x |-> x, y |-> y, kx |-> KeyFrom(x), ky |-> KeyFrom(y),
               val |-> KeyEq(KeyFrom(x), KeyFrom(y))]
    /\ UNCHANGED <<root, dom, comps, pending, log, armed>>

NextKey ==
    \/ \E x \in TypedInts \cup Strs : Convert(x)
    \/ \E x, y \in TypedInts \cup Strs : Compare(x, y)

SpecKey == InitKey /\ [][NextKey]_vars

(***************************************************************************)
(* The properties, and what they are stated with.                          *)
(***************************************************************************)
Min(S) == CHOOSE x \in S : \A y \in S : x <= y

Range(q) == { q[i] : i \in 1..Len(q) }

RECURSIVE Flatten(_)
Flatten(qs) == IF qs = <<>> THEN <<>> ELSE Head(qs) \o Flatten(Tail(qs))

\* the backing nodes a node owns directly under its parent, in order
RECURSIVE TopSeq(_)
TopSeq(v) ==
    CASE v.kind \in {"Text", "Element"} -> v.node
      [] v.kind = "List" ->
            Flatten([i \in 1..Len(v.children) |-> TopSeq(v.children[i].vnode)])
      [] v.kind = "Component" ->
            IF v.cached = None THEN <<>> ELSE TopSeq(v.cached[1].vnode)

\* every node of the tree has its backing node
RECURSIVE Linked(_)
Linked(v) ==
    CASE v.kind = "Text" -> v.node # None
      [] v.kind = "Element" -> v.node # None /\ Linked(v.child)
      [] v.kind = "List" ->
            \A i \in 1..Len(v.children) : Linked(v.children[i].vnode)
      [] v.kind = "Component" ->
            v.inst # None /\ v.cached # None /\ Linked(v.cached[1].vnode)

\* the same logical slot, as the specification words it
SameSlot(a, b) ==
    \/ a = None /\ b = None
    \/ /\ a # None /\ b # None
       /\ a[1].variant = b[1].variant /\ a[1].value = b[1].value

PatchNotes == { i \in 1..Len(log) : log[i].op = "patch" }

\* a call of patch with an old node: the pair (new, old)
PatchedOld == ret.op = "patch" /\ ret.old # None
NewNode1 == root[1]
OldNode1 == ret.old[1]
Mismatch ==
    \/ ~SameSlot(NewNode1.key, OldNode1.key)
    \/ NewNode1.vnode.kind # OldNode1.vnode.kind

\* C1: when patch gets an old node whose key or kind differs from the new
\* node's, the call starts by removing the old node; the new node's patch is
\* called only after every backing node of the old one was taken out of the
\* parent, it is called with no old node, and so is every patch below it (a
\* fresh mount, never an update in place); a call that succeeds has mounted
\* the new node.
C1_MismatchRemovesThenMounts ==
    (PatchedOld /\ Mismatch) =>
        /\ log # <<>>
        /\ log[1].op = "remove"
        /\ log[1].kind = OldNode1.vnode.kind
        /\ log[1].before = OldNode1.vnode.node
        /\ ret.ok => PatchNotes # {}
        /\ PatchNotes # {} =>
            /\ log[Min(PatchNotes)].kind = NewNode1.vnode.kind
            /\ \A i \in PatchNotes : ~log[i].old
            /\ \A h \in Range(TopSeq(OldNode1.vnode)) :
                 \E j \in 1..(Min(PatchNotes) - 1) :
                    /\ log[j].op = "remove_child" /\ log[j].ok
                    /\ log[j].h = h /\ log[j].parent = Container
        /\ ret.ok => /\ dom[Container].kids = TopSeq(NewNode1.vnode)
                     /\ Range(TopSeq(OldNode1.vnode)) \cap Range(dom[Container].kids) = {}

\* an old Element with a new Text in the same slot: removed, then mounted
C1_Witness ==
    /\ PatchedOld /\ ret.ok
    /\ SameSlot(NewNode1.key, OldNode1.key)
    /\ OldNode1.vnode.kind = "Element" /\ NewNode1.vnode.kind = "Text"
    /\ log[1].op = "remove"
    /\ \E i \in 1..Len(log) : log[i].op = "create_text"

\* C2: patch with no old node calls the new node's kind patch with no old
\* node, at the top and at every level below it, issues no remove, and a
\* call that succeeds leaves the new node mounted: every node of the tree
\* has its backing node and the parent holds the tree's nodes in order.
C2_NoOldNodeMounts ==
    ret.op = "mount" =>
        /\ log # <<>>
        /\ log[1].op = "patch" /\ ~log[1].old
        /\ log[1].kind = NewNode1.vnode.kind
        /\ \A i \in 1..Len(log) :
              /\ log[i].op \notin {"remove", "remove_child"}
              /\ log[i].op = "patch" => ~log[i].old
        /\ ret.ok => /\ Linked(NewNode1.vnode)
                     /\ dom[Container].kids = TopSeq(NewNode1.vnode)

C2_Witness ==
    /\ ret.op = "mount" /\ ret.ok
    /\ NewNode1.vnode.kind = "List"
    /\ Len(dom[Container].kids) = 2

\* C3: two keyed nodes are the same slot exactly when both keys are None or
\* both are Some of the same variant and value; patch hands the old node to
\* the new node's in-place patch, as the first thing it does, exactly when
\* the two are the same slot and of the same kind, and then it never calls
\* remove on the old node.
C3_SameSlotPatchedInPlace ==
    PatchedOld =>
        /\ log # <<>>
        /\ (SameSlot(NewNode1.key, OldNode1.key)
              /\ NewNode1.vnode.kind = OldNode1.vnode.kind)
           <=> (/\ log[1].op = "patch" /\ log[1].old
                /\ log[1].kind = NewNode1.vnode.kind
                /\ log[1].before = OldNode1.vnode.node)
        /\ ~Mismatch =>
              \A i \in 1..Len(log) :
                  ~(/\ log[i].op = "remove"
                    /\ log[i].kind = OldNode1.vnode.kind
                    /\ log[i].before = OldNode1.vnode.node)

\* an old Text and a new Text, both under the same key
C3_Witness ==
    /\ PatchedOld /\ ret.ok
    /\ NewNode1.key # None /\ SameSlot(NewNode1.key, OldNode1.key)
    /\ NewNode1.vnode.kind = "Text" /\ OldNode1.vnode.kind = "Text"
    /\ log[1].op = "patch" /\ log[1].old

\* C4: take_state_dirty returns true when a set_state that left the state in
\* the cell different from the component's state fields has run since the
\* last take_state_dirty, and false otherwise: the first take_state_dirty
\* after such a set_state returns true and every further one returns false
\* until such a set_state runs again, whatever set_state, update,
\* take_props_dirty and refresh_state calls lie in between.
C4_TakeStateDirtyOnce ==
    [][ret'.op = "take_state_dirty" => ret'.val = armed.dirtying]_vars

\* C4 as stated: after a set_state that changed the value in the cell the
\* next take_state_dirty returns true, and a take_state_dirty with no
\* set_state since the one before returns false.
C4_AsStated ==
    [][ret'.op = "take_state_dirty" =>
        /\ armed.mutating => ret'.val
        /\ ~armed.called => ~ret'.val]_vars

\* a take_state_dirty that returned true, the changed state still unrefreshed
C4_Witness ==
    /\ ret.op = "take_state_dirty" /\ ret.val
    /\ comps[TheComp].status.state # comps[TheComp].state
    /\ ~comps[TheComp].status.state_dirty

\* C6: update with props equal field for field to the current ones leaves
\* props_dirty as it was and returns None; update with a differing field
\* sets props_dirty, stores the new props and returns Some(the props held
\* before the call); either way the events are the new events afterwards.
C6_UpdateComparesProps ==
    [][ret'.op = "update" =>
        LET c == comps[TheComp]
            d == comps'[TheComp]
        IN /\ d.events = ret'.events
           /\ d.state = c.state /\ d.status.state = c.status.state
           /\ d.status.state_dirty = c.status.state_dirty
           /\ IF ret'.props.a = c.props.a /\ ret'.props.b = c.props.b
              THEN /\ ret'.old = None
                   /\ d.status.props_dirty = c.status.props_dirty
                   /\ d.props = c.props
              ELSE /\ ret'.old = Some(c.props)
                   /\ d.status.props_dirty
                   /\ d.props = ret'.props]_vars

\* an update that changed one field and replaced the events
C6_Witness ==
    /\ ret.op = "update" /\ ret.old # None
    /\ ret.old[1].a = ret.props.a /\ ret.old[1].b # ret.props.b
    /\ comps[TheComp].status.props_dirty
    /\ comps[TheComp].events = "e2"

\* C7: set_state writes the mutated value into the state of the status
\* cell and leaves the component's state fields alone; afterwards
\* state_dirty is set when it was set before or the mutated value differs
\* from the state fields, and is clear otherwise; and the call sends exactly
\* one message on rx_sender, whether the value changed or not.
C7_SetStateMarksAndNotifies ==
    [][ret'.op = "set_state" =>
        LET c == comps[TheComp]
            d == comps'[TheComp]
            mutated == ApplyMutator(ret'.m, c.status.state)
        IN /\ d.status.state = mutated
           /\ d.state = c.state /\ d.props = c.props
           /\ d.status.props_dirty = c.status.props_dirty
           /\ d.status.state_dirty = (c.status.state_dirty \/ mutated # c.state)
           /\ pending' = pending + 1]_vars

\* a set_state that left the value as it was, and still sent its message
C7_Witness ==
    /\ ret.op = "set_state" /\ ~ret.changed
    /\ ~comps[TheComp].status.state_dirty
    /\ pending = 1

\* the Component nodes of a tree
RECURSIVE CompNodes(_)
CompNodes(v) ==
    CASE v.kind = "Text" -> {}
      [] v.kind = "Element" -> CompNodes(v.child)
      [] v.kind = "List" ->
            UNION { CompNodes(v.children[i].vnode) : i \in 1..Len(v.children) }
      [] v.kind = "Component" ->
            {v} \cup (IF v.cached = None THEN {} ELSE CompNodes(v.cached[1].vnode))

CompNodeOf(t, id) == CHOOSE c \in CompNodes(t[1].vnode) : c.inst = Some(id)

\* the places of the log of a call l where op is noted for instance id
NotesOf(l, op, id) ==
    { i \in 1..Len(l) : l[i].op = op /\ l[i].before = Some(id) }

HooksOf(l, name, id) == { i \in NotesOf(l, "hook", id) : l[i].kind = name }

\* C5: a call that patches a Component node against a matching old one
\* (update is noted for its instance) leaves both dirty flags of the instance
\* clear; it calls render, and patches the result against the cached
\* subtree, exactly when the state-dirty flag was set before the call or
\* the props-dirty flag was set before it or was set by this patch's update;
\* otherwise it calls no render, and the node keeps its cached subtree and
\* backing node as they were.
C5_RerenderIffDirty ==
    [][\A id \in DOMAIN comps :
        NotesOf(log', "update", id) # {} =>
            LET pre == comps[id]
                post == comps'[id]
                i == CHOOSE i \in NotesOf(log', "update", id) : TRUE
                wasDirty == \/ pre.status.state_dirty
                            \/ pre.status.props_dirty
                            \/ post.props # pre.props
                oldN == CompNodeOf(root, id)
                newN == CompNodeOf(root', id)
            IN /\ NotesOf(log', "update", id) = {i}
               /\ ~post.status.state_dirty /\ ~post.status.props_dirty
               /\ IF wasDirty
                  THEN /\ NotesOf(log', "refresh_state", id) = {i + 1}
                       /\ NotesOf(log', "render", id) = {i + 2}
                       /\ log'[i + 3].op = "patch" /\ log'[i + 3].old
                       /\ log'[i + 3].before = KeyedNode(oldN.cached[1])
                       /\ newN.cached[1].vnode.content = Render(post).vnode.content
                  ELSE /\ NotesOf(log', "refresh_state", id) = {}
                       /\ NotesOf(log', "render", id) = {}
                       /\ newN.cached = oldN.cached /\ newN.node = oldN.node
                       /\ dom'[newN.node[1]] = dom[oldN.node[1]]
                       /\ post.state = pre.state]_vars

\* a render pass over a list of two components: the one whose state
\* changed is rendered again, the other is left alone
C5_Witness ==
    /\ ret.op = "render_pass" /\ ret.ok
    /\ \E id, other \in DOMAIN comps :
        /\ id # other
        /\ NotesOf(log, "update", id) # {} /\ NotesOf(log, "render", id) # {}
        /\ NotesOf(log, "update", other) # {} /\ NotesOf(log, "render", other) = {}
    /\ \E i \in 1..Len(log) : log[i].op = "set_text"

\* what the log notes about an instance
InstNotes == {"init", "update", "refresh_state", "render", "hook"}

Mounted == [created |-> 1, mounted |-> 1, destroyed |-> 0]
Destroyed == [created |-> 1, mounted |-> 1, destroyed |-> 1]

\* between calls an instance of the mounted tree is Mounted, any other is
\* Destroyed
C9_Phases ==
    \A id \in DOMAIN comps :
        IF root # None /\ id \in Instances(root[1].vnode)
        THEN comps[id].hooks = Mounted
        ELSE comps[id].hooks = Destroyed

\* the order of the hooks within a call
C9_Order ==
    \A id \in DOMAIN comps :
        /\ \A i \in NotesOf(log, "init", id) :
            /\ NotesOf(log, "init", id) = {i}
            /\ \A j \in 1..(i - 1) : log[j].op \in InstNotes => log[j].before # Some(id)
            /\ log[i + 1].op = "refresh_state" /\ log[i + 1].before = Some(id)
            /\ log[i + 2].op = "render" /\ log[i + 2].before = Some(id)
            /\ HooksOf(log, "created", id) = {i + 3}
            /\ \E j \in (i + 4)..Len(log) :
                /\ HooksOf(log, "mounted", id) = {j}
                /\ \E k \in (i + 4)..(j - 1) :
                    /\ log[k].op = "insert_before" /\ log[k].ok
                    /\ Some(log[k].h) = CompNodeOf(root, id).node
        /\ NotesOf(log, "init", id) = {} =>
            HooksOf(log, "created", id) \cup HooksOf(log, "mounted", id) = {}
        /\ \A i \in HooksOf(log, "destroyed", id) :
            /\ HooksOf(log, "destroyed", id) = {i}
            /\ log[i - 1].op = "remove" /\ log[i - 1].kind = "Component"
            /\ \A j \in (i + 1)..Len(log) :
                  log[j].op \in InstNotes => log[j].before # Some(id)
            /\ \E j \in (i + 1)..Len(log) :
                  /\ log[j].op = "remove_child" /\ Some(log[j].h) = log[i - 1].before
            /\ \A j \in 1..i :
                  ~(log[j].op = "remove_child" /\ Some(log[j].h) = log[i - 1].before)

\* from one call to the next
C9_Step ==
    \A id \in DOMAIN comps :
        LET pre == comps[id]
            upd == NotesOf(log', "update", id)
            U == HooksOf(log', "updated", id)
        IN /\ pre.hooks.destroyed = 1 =>
                \A j \in 1..Len(log') :
                    log'[j].op \in InstNotes => log'[j].before # Some(id)
           /\ pre.hooks.destroyed = 0 =>
                /\ id \in DOMAIN comps'
                /\ NotesOf(log', "init", id) = {}
                /\ comps'[id].hooks.created = 1 /\ comps'[id].hooks.mounted = 1
                /\ Cardinality(U) <= 1
                /\ U # {} <=> /\ upd # {}
                              /\ pre.status.props_dirty \/ comps'[id].props # pre.props
                /\ \A u \in U : /\ log'[u].arg = ToString(pre.props)
                                /\ \A i \in upd : i < u

\* C9: created is invoked once, right after the first render of the mount;
\* mounted once, after the subtree was inserted; updated on exactly the
\* patches where props-dirty was true, with the props held before; destroyed
\* once, before the subtree is taken out; an instance is Fresh only during
\* its mount, then Mounted, then Destroyed, and nothing is invoked on a
\* Destroyed instance.
C9_Lifecycle == [](C9_Phases /\ C9_Order) /\ [][C9_Step]_vars

\* a patch that replaced mounted components by fresh ones: destroyed on the
\* old instances, created and mounted on the new
C9_Witness ==
    /\ ret.op = "patch" /\ ret.ok
    /\ \E id, other \in DOMAIN comps :
        /\ HooksOf(log, "destroyed", id) # {}
        /\ HooksOf(log, "mounted", other) # {}
    /\ \E id \in DOMAIN comps : comps[id].hooks = Destroyed

\* a patch that handed a mounted component other props: updated is invoked
C9_WitnessUpdated ==
    /\ ret.op = "patch" /\ ret.ok
    /\ \E id \in DOMAIN comps : HooksOf(log, "updated", id) # {}

\* set_state changed the state of instance id and no render pass has
\* rendered it since
Dirty(id) == id \in DOMAIN comps /\ comps[id].status.state_dirty

\* the request for a render pass is still on its way
Requested == pending > 0

\* the subtree rendered for instance id shows the state in its status cell
Shown(id) ==
    /\ id \in DOMAIN comps
    /\ ~comps[id].status.state_dirty
    /\ comps[id].state = comps[id].status.state
    /\ LET c == CompNodeOf(root, id)
           text == ToString(<<comps[id].props.a, comps[id].props.b,
                              comps[id].status.state>>)
       IN /\ c.cached[1].vnode.content = text
          /\ dom[c.cached[1].vnode.node[1]].text = text

KeysOf(l) == [i \in 1..Len(l.children) |-> l.children[i].key]

\* a mounted list of keyed children was patched against a list of the same
\* keys in another order
Reordered ==
    /\ ret.op = "patch" /\ ret.ok
    /\ ret.old[1].vnode.kind = "List" /\ root[1].vnode.kind = "List"
    /\ OptKeyEq(ret.old[1].key, root[1].key)
    /\ LET old == KeysOf(ret.old[1].vnode)
           new == KeysOf(root[1].vnode)
       IN /\ \A i \in 1..Len(old) : old[i] # None
          /\ \A i \in 1..Len(new) : new[i] # None
          /\ Range(old) = Range(new) /\ Len(old) = Len(new)
          /\ old # new

\* C10: patching a mounted list of uniquely keyed children against a list of
\* the same keys in another order creates no node and removes none: the
\* render target sees insert_before, at least once, and set_text only; the
\* parent's children are then the new list's backing nodes in the new
\* list's order; each child has the backing node the old child of its key
\* had, and a Text child whose content changed had the text set on that node.
C10_ReorderOnlyMoves ==
    Reordered =>
        LET old == ret.old[1].vnode.children
            new == root[1].vnode.children
        IN /\ \A i \in 1..Len(log) :
                log[i].op \in {"patch", "insert_before", "set_text"} /\ log[i].ok
           /\ \E i \in 1..Len(log) : log[i].op = "insert_before"
           /\ dom[Container].kids = [i \in 1..Len(new) |-> new[i].vnode.node[1]]
           /\ \A i \in 1..Len(new) :
                \E j \in 1..Len(old) :
                    /\ KeyEq(old[j].key[1], new[i].key[1])
                    /\ new[i].vnode.node = old[j].vnode.node
                    /\ dom[new[i].vnode.node[1]].text = new[i].vnode.content
                    /\ new[i].vnode.content # old[j].vnode.content
                        <=> \E k \in 1..Len(log) :
                                /\ log[k].op = "set_text"
                                /\ Some(log[k].h) = old[j].vnode.node

\* [K1 "a", K2 "b", K3 "c"] patched against [K3 "c", K1 "a changed", K2 "b"]
C10_Witness ==
    /\ Reordered
    /\ KeysOf(ret.old[1].vnode) = <<Some(K1), Some(K2), Some(K3)>>
    /\ KeysOf(root[1].vnode) = <<Some(K3), Some(K1), Some(K2)>>
    /\ root[1].vnode.children[2].vnode.content = "a changed"
    /\ \E k \in 1..Len(log) : log[k].op = "set_text"
    /\ LET old == ret.old[1].vnode.children
       IN dom[Container].kids =
            <<old[3].vnode.node[1], old[1].vnode.node[1], old[2].vnode.node[1]>>

\* the operations of the render target, as the log names them
RTOps ==
    {"create_text", "create_element", "set_text", "set_attribute",
     "remove_attribute", "insert_before", "remove_child"}

RTEvents == { i \in 1..Len(log) : log[i].op \in RTOps }

\* the keyed node as the application builds it
ShellOf(k) == [key |-> k.key, vnode |-> Shell(k.vnode)]

\* no component of the tree t has a dirty flag set
NoneDirty(t) ==
    \A id \in Instances(t[1].vnode) :
        ~comps[id].status.state_dirty /\ ~comps[id].status.props_dirty

\* the mounted tree was patched against a new tree equal to it
PatchedAgainstItself ==
    /\ ret.op = "patch" /\ ret.old # None /\ root # None
    /\ ShellOf(root[1]) = ShellOf(ret.old[1])

\* C11: a patch of the mounted tree against a new tree of the same shape,
\* keys and content, with no component dirty, calls no operation of the
\* render target (so it cannot fail) and leaves the live tree as it was;
\* the new tree gets the backing nodes, instances and cached subtrees of the
\* old one.
C11_SameTreeNoOperations ==
    [][(ret'.op = "patch" /\ root # None /\ root' # None
            /\ ShellOf(root'[1]) = ShellOf(root[1]) /\ NoneDirty(root)) =>
        /\ \A i \in 1..Len(log') : log'[i].op \notin RTOps
        /\ ret'.ok
        /\ root' = root
        /\ dom' = [h \in Reach(dom, Container) |-> dom[h]]]_vars

\* an element with an attribute over a list, patched against itself
C11_Witness ==
    /\ PatchedAgainstItself /\ ret.ok
    /\ root[1].vnode.kind = "Element" /\ root[1].vnode.attrs # <<>>
    /\ root[1].vnode.child.kind = "List"
    /\ Len(log) >= 3

\* C12: two keys are equal exactly when they are of the same variant and
\* hold the same value; a key built from an integer is I64 for every signed
\* type and U64 for every unsigned type, with the integer as its value,
\* whatever the value; so keys built from the same number in two signed
\* widths are equal and keys built from the same number in a signed and an
\* unsigned type are not.
C12_KeyVariantFromType ==
    /\ ret.op = "from" =>
        /\ ret.x.ty \in SignedTypes => ret.key.variant = "I64"
        /\ ret.x.ty \in UnsignedTypes => ret.key.variant = "U64"
        /\ ret.key.value = ret.x.v
    /\ ret.op = "eq" =>
        /\ ret.val <=> /\ ret.kx.variant = ret.ky.variant
                       /\ ret.kx.value = ret.ky.value
        /\ (ret.x.ty \in SignedTypes /\ ret.y.ty \in SignedTypes
                /\ ret.x.v = ret.y.v) => ret.val
        /\ (ret.x.ty \in UnsignedTypes /\ ret.y.ty \in UnsignedTypes
                /\ ret.x.v = ret.y.v) => ret.val
        /\ (ret.x.ty \in SignedTypes /\ ret.y.ty \in UnsignedTypes) => ~ret.val
        /\ (ret.x.ty \in UnsignedTypes /\ ret.y.ty \in SignedTypes) => ~ret.val

\* 1i8 and 1i64 compared equal
C12_Witness ==
    /\ ret.op = "eq" /\ ret.val
    /\ ret.x = [ty |-> "i8", v |-> 1] /\ ret.y = [ty |-> "i64", v |-> 1]

\* 1i32 and 1u32 compared unequal
C12_WitnessMixed ==
    /\ ret.op = "eq" /\ ~ret.val
    /\ ret.x = [ty |-> "i32", v |-> 1] /\ ret.y = [ty |-> "u32", v |-> 1]

\* what one operation of the render target does to the DOM
Effect(d, e) ==
    CASE e.op = "create_text" -> d @@ (e.h :> NewNode("#text", e.arg))
      [] e.op = "create_element" -> d @@ (e.h :> NewNode(e.arg, ""))
      [] e.op = "set_text" -> [d EXCEPT ![e.h].text = e.arg]
      [] e.op = "set_attribute" ->
            LET i == AttrIndex(d[e.h].attrs, e.kind)
                a == [name |-> e.kind, value |-> e.arg]
            IN [d EXCEPT ![e.h].attrs =
                    IF i = 0 THEN Append(@, a) ELSE [@ EXCEPT ![i] = a]]
      [] e.op = "remove_attribute" ->
            [d EXCEPT ![e.h].attrs = SelectSeq(@, LAMBDA x : x.name # e.kind)]
      [] e.op = "insert_before" ->
            LET detached == [p \in DOMAIN d |-> [d[p] EXCEPT !.kids = Without(@, e.h)]]
                sibs == detached[e.parent].kids
            IN [detached EXCEPT ![e.parent].kids =
                    IF e.before = None THEN Append(sibs, e.h)
                    ELSE InsertAt(sibs, IndexOf(sibs, e.before[1]), e.h)]
      [] e.op = "remove_child" -> [d EXCEPT ![e.parent].kids = Without(@, e.h)]
      [] OTHER -> d

\* the DOM d after the operations of the log l that succeeded, from the i-th on
RECURSIVE Replay(_, _, _)
Replay(d, l, i) ==
    IF i > Len(l) THEN d
    ELSE Replay(IF l[i].op \in RTOps /\ l[i].ok THEN Effect(d, l[i]) ELSE d, l, i + 1)

\* C13: a mount, patch or remove fails exactly when an operation of the
\* render target failed in it; the failed operation is then the last thing
\* the call did: no operation, no patch or remove of a node and no hook comes
\* after it (after a failed remove of a mismatched old node the new node is
\* not patched); and the DOM the call leaves is the DOM it found with every
\* operation that succeeded before the failure applied, none undone.
C13_FailureStopsThePatch ==
    [][ret'.op \in {"mount", "patch", "remove"} =>
        LET n == Len(log')
            failed == { i \in 1..n : ~log'[i].ok }
        IN /\ ret'.ok <=> failed = {}
           /\ ~ret'.ok => failed = {n} /\ log'[n].op \in RTOps
           /\ dom' = Replay([h \in Reach(dom, Container) |-> dom[h]], log', 1)]_vars

\* a list of two Text nodes is patched against a node of another kind; the
\* first remove_child succeeds, the second fails: the new node is not
\* patched and the first child stays removed
C13_Witness ==
    /\ PatchedOld /\ ~ret.ok /\ Mismatch
    /\ OldNode1.vnode.kind = "List" /\ Len(OldNode1.vnode.children) = 2
    /\ PatchNotes = {}
    /\ Len(log) >= 2
    /\ log[Len(log)].op = "remove_child" /\ ~log[Len(log)].ok
    /\ \E i \in 1..(Len(log) - 1) : log[i].op = "remove_child" /\ log[i].ok
    /\ Len(dom[Container].kids) = 1

\* a mounted list was patched against a new list, and the patch succeeded
ListPatched ==
    /\ ret.op = "patch" /\ ret.ok
    /\ ret.old[1].vnode.kind = "List" /\ root[1].vnode.kind = "List"
    /\ OptKeyEq(ret.old[1].key, root[1].key)

OldKids == ret.old[1].vnode.children
NewKids == root[1].vnode.children

\* the old child of the key of the keyed new child i (0: there is none)
HitOf(i) == KeyLookup(OldKids, NewKids[i].key[1])

\* the old child at the index of the unkeyed new child i was matched by its
\* key with a new child before i
TakenByKey(i) ==
    \E k \in 1..(i - 1) : NewKids[k].key # None /\ HitOf(k) = i

\* the old child of the key of the keyed new child i was matched by its
\* index with an unkeyed new child before i
TakenByIndex(i) ==
    \E k \in 1..(i - 1) : NewKids[k].key = None /\ HitOf(i) = k

\* the old children some new child was matched with
MatchedOld ==
    { i \in 1..Len(NewKids) :
        NewKids[i].key = None /\ i <= Len(OldKids) /\ ~TakenByKey(i) } \cup
    { HitOf(i) : i \in { k \in 1..Len(NewKids) :
        NewKids[k].key # None /\ HitOf(k) # 0 /\ ~TakenByIndex(k) } }

EventsOf(op, node) ==
    { k \in 1..Len(log) : log[k].op = op /\ Some(log[k].h) = node }

\* the new child i was mounted fresh: its backing node was created in this
\* call and is no old child's
MountedFresh(i) ==
    /\ Cardinality(EventsOf("create_text", NewKids[i].vnode.node)) = 1
    /\ \A j \in 1..Len(OldKids) : OldKids[j].vnode.node # NewKids[i].vnode.node

\* the new child i was patched against the old child j: in place when they
\* are the same slot, and otherwise the old child was removed and, right
\* after it, the new child mounted
PatchedAgainst(i, j) ==
    IF OptKeyEq(NewKids[i].key, OldKids[j].key)
    THEN /\ NewKids[i].vnode.node = OldKids[j].vnode.node
         /\ EventsOf("remove_child", OldKids[j].vnode.node) = {}
    ELSE /\ MountedFresh(i)
         /\ \E k \in EventsOf("remove_child", OldKids[j].vnode.node) :
                /\ k + 2 \in EventsOf("create_text", NewKids[i].vnode.node)
                /\ log[k + 1].op = "patch" /\ ~log[k + 1].old

\* what C14 says of the old children left over, of the keyed new children
\* without an old child of their key, and of the parent's children
C14_Rest ==
    /\ \A j \in 1..Len(OldKids) : j \notin MatchedOld =>
        /\ Cardinality(EventsOf("remove_child", OldKids[j].vnode.node)) = 1
        /\ ~Contains(dom[Container].kids, OldKids[j].vnode.node[1])
    /\ \A i \in 1..Len(NewKids) :
        (NewKids[i].key # None /\ HitOf(i) = 0) => MountedFresh(i)
    /\ dom[Container].kids = [i \in 1..Len(NewKids) |-> NewKids[i].vnode.node[1]]

C14_WitnessTaken ==
    /\ ListPatched
    /\ KeysOf(ret.old[1].vnode) = <<None, Some(K1)>>
    /\ KeysOf(root[1].vnode) = <<Some(K1), None>>
    /\ TakenByKey(2) /\ MountedFresh(2)

\* every Text node of the tree has a text backing node of its content in
\* the DOM, and the children of every Element's backing node are the backing
\* nodes of the nodes below it, in their order
RECURSIVE Placed(_)
Placed(v) ==
    CASE v.kind = "Text" ->
            /\ v.node # None /\ v.node[1] \in DOMAIN dom
            /\ dom[v.node[1]].tag = "#text" /\ dom[v.node[1]].text = v.content
      [] v.kind = "Element" ->
            /\ v.node # None /\ v.node[1] \in DOMAIN dom
            /\ dom[v.node[1]].kids = TopSeq(v.child)
            /\ Placed(v.child)
      [] v.kind = "List" -> \A i \in 1..Len(v.children) : Placed(v.children[i].vnode)
      [] v.kind = "Component" -> v.cached # None /\ Placed(v.cached[1].vnode)

\* the patches of a Text node with no old node, in the log
TextMounts ==
    { k \in 1..Len(log) : log[k].op = "patch" /\ log[k].kind = "Text" /\ ~log[k].old }

\* C15: the patch of a Text node with no old node creates a text node of
\* its content and then inserts that node; after a mount
\* that succeeded every Text node of the tree has its text backing node in
\* the live tree, each at the place of its node in the tree (before the
\* backing node of what follows it, last when nothing follows); render_walk
\* does nothing to a Text node.
C15_TextMount ==
    /\ [](/\ \A k \in TextMounts :
                /\ k < Len(log) /\ log[k + 1].op = "create_text"
                /\ log[k + 1].ok =>
                    /\ k + 2 <= Len(log) /\ log[k + 2].op = "insert_before"
                    /\ log[k + 2].h = log[k + 1].h
          /\ (ret.op = "mount" /\ ret.ok) =>
                /\ Placed(root[1].vnode)
                /\ dom[Container].kids = TopSeq(root[1].vnode))
    /\ [][ret'.op = "render_walk" =>
            /\ ret'.ok /\ log' = <<>> /\ root' = root
            /\ dom' = [h \in Reach(dom, Container) |-> dom[h]]]_vars

\* a list of two Text nodes was mounted: the second was appended, the first
\* inserted before it
C15_Witness ==
    /\ ret.op = "mount" /\ ret.ok
    /\ root[1].vnode.kind = "List" /\ Len(root[1].vnode.children) = 2
    /\ Cardinality(TextMounts) = 2
    /\ \E i, j \in 1..Len(log) :
        /\ i < j
        /\ log[i].op = "insert_before" /\ log[i].before = None
        /\ log[j].op = "insert_before" /\ log[j].before = Some(log[i].h)
        /\ dom[Container].kids = <<log[j].h, log[i].h>>

\* the backing nodes the Text and Element nodes of a tree hold, in tree order
RECURSIVE OwnLinks(_)
OwnLinks(v) ==
    CASE v.kind = "Text" -> v.node
      [] v.kind = "Element" -> v.node \o OwnLinks(v.child)
      [] v.kind = "List" ->
            Flatten([i \in 1..Len(v.children) |-> OwnLinks(v.children[i].vnode)])
      [] v.kind = "Component" ->
            IF v.cached = None THEN <<>> ELSE OwnLinks(v.cached[1].vnode)

\* the Text and Element nodes of a tree
RECURSIVE OwnerCount(_)
OwnerCount(v) ==
    CASE v.kind = "Text" -> 1
      [] v.kind = "Element" -> 1 + OwnerCount(v.child)
      [] v.kind = "List" ->
            Len(Flatten([i \in 1..Len(v.children) |->
                            [j \in 1..OwnerCount(v.children[i].vnode) |-> 0]]))
      [] v.kind = "Component" ->
            IF v.cached = None THEN 0 ELSE OwnerCount(v.cached[1].vnode)

\* the link of every node of the tree: a Text or an Element node its own backing node, of its kind; a List the
\* link of its first child; a Component the link of its rendered subtree
RECURSIVE LinkOf(_)
LinkOf(v) ==
    CASE v.kind = "Text" ->
            /\ v.node # None /\ v.node[1] \in DOMAIN dom
            /\ dom[v.node[1]].tag = "#text"
      [] v.kind = "Element" ->
            /\ v.node # None /\ v.node[1] \in DOMAIN dom
            /\ dom[v.node[1]].tag = v.tag
            /\ LinkOf(v.child)
      [] v.kind = "List" ->
            /\ v.node = IF v.children = <<>> THEN None
                        ELSE v.children[1].vnode.node
            /\ \A i \in 1..Len(v.children) : LinkOf(v.children[i].vnode)
      [] v.kind = "Component" ->
            /\ v.inst # None /\ v.cached # None
            /\ v.node = v.cached[1].vnode.node
            /\ LinkOf(v.cached[1].vnode)

\* no node of the tree has a link
RECURSIVE Unlinked(_)
Unlinked(v) ==
    /\ v.node = None
    /\ CASE v.kind = "Element" -> Unlinked(v.child)
         [] v.kind = "List" ->
                \A i \in 1..Len(v.children) : Unlinked(v.children[i].vnode)
         [] v.kind = "Component" -> v.cached = None /\ v.inst = None
         [] v.kind = "Text" -> TRUE

\* every node of the tree, whatever its variant, has a link
RECURSIVE AllPresent(_)
AllPresent(v) ==
    /\ v.node # None
    /\ CASE v.kind = "Element" -> AllPresent(v.child)
         [] v.kind = "List" ->
                \A i \in 1..Len(v.children) : AllPresent(v.children[i].vnode)
         [] v.kind = "Component" ->
                v.cached # None /\ AllPresent(v.cached[1].vnode)
         [] v.kind = "Text" -> TRUE

C16_WitnessFailed ==
    /\ ~ret.ok /\ root # None
    /\ OwnLinks(root[1].vnode) # <<>>

\* the nodes of a mounted tree, the rendered subtrees of its components
\* included
RECURSIVE NodeCount(_)
NodeCount(v) ==
    CASE v.kind = "Text" -> 1
      [] v.kind = "Element" -> 1 + NodeCount(v.child)
      [] v.kind = "List" ->
            1 + Len(Flatten([i \in 1..Len(v.children) |->
                                [j \in 1..NodeCount(v.children[i].vnode) |-> 0]]))
      [] v.kind = "Component" -> 1 + NodeCount(v.cached[1].vnode)

RemoveNotes == { i \in 1..Len(log) : log[i].op = "remove" }
Detached == { j \in 1..Len(log) : log[j].op = "remove_child" }

\* C17: in every call, a backing node is detached only after every backing
\* node below it has been detached from it, and once detached it has no
\* child left and is not in the live tree; the remove of an Element is
\* followed by the remove of its child, that of a non-empty List by the
\* remove of its first child, that of a Component by its destroyed hook and
\* then by the remove of its rendered subtree, and none of them has detached
\* the node's backing node before that; a remove of the mounted tree that
\* succeeded has removed every node of the tree once, has detached every
\* backing node of it once, and leaves nothing under the parent.
C17_RemoveBottomUp ==
    /\ \A j \in Detached :
        /\ \A i \in Detached : (log[i].parent = log[j].h) => i < j
        /\ log[j].ok =>
            /\ dom[log[j].h].kids = <<>>
            /\ log[j].h \notin Reach(dom, Container)
            /\ \A i \in Detached : log[i].h = log[j].h => i = j
    /\ \A i \in RemoveNotes :
        /\ \A j \in Detached : Some(log[j].h) = log[i].before => j > i
        /\ log[i].kind = "Element" =>
            /\ log[i + 1].op = "remove"
            /\ \E j \in Detached :
                /\ log[j].parent = log[i].before[1]
                /\ \A k \in Detached : Some(log[k].h) = log[i].before => j < k
        /\ (log[i].kind = "List" /\ log[i].before # None) =>
            /\ log[i + 1].op = "remove" /\ log[i + 1].before = log[i].before
        /\ log[i].kind = "Component" =>
            /\ log[i + 1].op = "hook" /\ log[i + 1].kind = "destroyed"
            /\ log[i + 2].op = "remove" /\ log[i + 2].before = log[i].before
            /\ \A j \in Detached : Some(log[j].h) = log[i].before => j > i + 2
    /\ (ret.op = "remove" /\ ret.ok) =>
        /\ Cardinality(RemoveNotes) = NodeCount(ret.old[1].vnode)
        /\ { log[j].h : j \in Detached } = Range(OwnLinks(ret.old[1].vnode))
        /\ Cardinality(Detached) = Len(OwnLinks(ret.old[1].vnode))
        /\ Reach(dom, Container) = {Container}

\* an Element with a list below it was removed: the child of the list was
\* detached from the Element's backing node, then that node from the parent
C17_Witness ==
    /\ ret.op = "remove" /\ ret.ok
    /\ ret.old[1].vnode.kind = "Element"
    /\ ret.old[1].vnode.child.kind = "List"
    /\ \E i, j \in Detached :
        /\ i < j
        /\ log[i].parent = log[j].h /\ log[j].parent = Container
        /\ Some(log[j].h) = ret.old[1].vnode.node

\* a list holding a Component was removed: the hook came before the detach
C17_WitnessComponent ==
    /\ ret.op = "remove" /\ ret.ok
    /\ ret.old[1].vnode.kind = "List"
    /\ \E i \in RemoveNotes, j \in Detached :
        /\ log[i].kind = "Component" /\ i + 2 < j
        /\ Some(log[j].h) = log[i].before

\* C18: in every call, a component that is rendered is rendered once, with
\* refresh_state invoked once on it, right before the render step, and a
\* component that is not rendered is not refreshed; after the call the
\* markup cached for it shows the state held in its status cell, which is
\* also the state in its own fields; and the state in the status cell is
\* written by set_state only, as a mutator's result.
C18_RefreshBeforeRender ==
    /\ [](\A id \in DOMAIN comps :
            /\ \A j \in NotesOf(log, "render", id) :
                /\ NotesOf(log, "render", id) = {j}
                /\ NotesOf(log, "refresh_state", id) = {j - 1}
                /\ comps[id].state = StateAsRef(comps[id].status)
                /\ (ret.ok /\ id \in Instances(root[1].vnode)) =>
                    CompNodeOf(root, id).cached[1].vnode.content =
                        ToString(<<comps[id].props.a, comps[id].props.b,
                                   StateAsRef(comps[id].status)>>)
            /\ NotesOf(log, "render", id) = {} =>
                NotesOf(log, "refresh_state", id) = {})
    /\ [][\A id \in DOMAIN comps \cap DOMAIN comps' :
            IF ret'.op = "set_state"
            THEN \/ comps'[id] = comps[id]
                 \/ \E m \in HandlerMutators :
                        StateAsRef(comps'[id].status) =
                            ApplyMutator(m, StateAsRef(comps[id].status))
            ELSE StateAsRef(comps'[id].status) = StateAsRef(comps[id].status)]_vars

\* a render pass rendered a component whose state set_state had changed
C18_Witness ==
    /\ ret.op = "render_pass" /\ ret.ok /\ root # None
    /\ \E id \in Instances(root[1].vnode) :
        /\ NotesOf(log, "render", id) # {}
        /\ comps[id].state # DefaultState
        /\ CompNodeOf(root, id).cached[1].vnode.content =
                ToString(<<comps[id].props.a, comps[id].props.b, comps[id].state>>)

\* the instances that live through a step
Staying == DOMAIN comps \cap DOMAIN comps'

\* C19: between render passes every set_state call sends one message, and
\* no other call sends or takes one; a render pass takes one message, not
\* all of them.  A set_state call that changes the state in the status cell
\* leaves state_dirty set, and a set_state call never clears it, so that
\* after any number of such calls the one flag is set.  The pass that
\* follows finds the flag set and clears it; with the props as they were it
\* renders the component exactly when the flag was set, so the pass after
\* it, with no set_state in between, does not render.  A clear flag always
\* goes with state fields equal to the state in the cell.
C19_ManyCallsOneFlag ==
    /\ [](\A id \in DOMAIN comps :
            /\ comps[id].status.state_dirty \in BOOLEAN
            /\ ~comps[id].status.state_dirty =>
                comps[id].state = StateAsRef(comps[id].status))
    /\ [][/\ pending' = CASE ret'.op = "set_state" -> pending + 1
                          [] ret'.op = "render_pass" -> pending - 1
                          [] OTHER -> pending
          /\ ret'.op = "set_state" =>
                \A id \in Staying :
                    /\ comps[id].status.state_dirty => comps'[id].status.state_dirty
                    /\ StateAsRef(comps'[id].status) # StateAsRef(comps[id].status)
                        => comps'[id].status.state_dirty
                    /\ comps'[id].status.props_dirty = comps[id].status.props_dirty
          /\ ret'.op = "render_pass" =>
                \A id \in Staying :
                    /\ ~comps'[id].status.state_dirty
                    /\ comps'[id].props = comps[id].props
                    /\ \A i \in NotesOf(log', "update", id) :
                        log'[i].old = (comps[id].status.state_dirty
                                        \/ comps[id].status.props_dirty)]_vars

\* two set_state calls since the last pass, both changing the state in the
\* cell (there and back): two messages wait, the one flag is set
C19_Witness ==
    /\ ret.op = "set_state" /\ pending = 2 /\ root # None
    /\ root[1].vnode.kind = "Component"
    /\ LET id == root[1].vnode.inst[1]
       IN /\ comps[id].status.state_dirty
          /\ comps[id].state = StateAsRef(comps[id].status)

\* the pass after them rendered the component; one message still waits
C19_WitnessPass ==
    /\ ret.op = "render_pass" /\ ret.ok /\ pending = 1 /\ root # None
    /\ root[1].vnode.kind = "Component"
    /\ LET id == root[1].vnode.inst[1]
       IN /\ NotesOf(log, "render", id) # {}
          /\ comps[id].state = DefaultState

\* the status cell of the component
Cell == comps[TheComp].status

\* C20: a new Status has both flags clear and the state it was given.  On
\* every status that is reached, mark_state_dirty and take_state_dirty
\* change state_dirty at most, mark_props_dirty and take_props_dirty change
\* props_dirty at most, and the marks set their flag; so do the calls made:
\* a take_state_dirty call leaves props_dirty and the state as they were, a
\* take_props_dirty call leaves state_dirty and the state as they were, an
\* update (the only caller of mark_props_dirty) leaves state_dirty and the
\* state as they were, a set_state (the only caller of mark_state_dirty and
\* of do_react) leaves props_dirty as it was, and a set_state whose mutator
\* leaves the state as it is and marks nothing sends its message and leaves
\* the whole Status as it was.
C20_FlagsIndependent ==
    /\ StatusNew(DefaultState) =
            [state |-> DefaultState, state_dirty |-> FALSE, props_dirty |-> FALSE]
    /\ [](/\ ret.op = "init" => Cell = StatusNew(DefaultState)
          /\ MarkStateDirty(Cell) = [Cell EXCEPT !.state_dirty = TRUE]
          /\ MarkPropsDirty(Cell) = [Cell EXCEPT !.props_dirty = TRUE]
          /\ TakeStateDirty(Cell).status = [Cell EXCEPT !.state_dirty = FALSE]
          /\ TakePropsDirty(Cell).status = [Cell EXCEPT !.props_dirty = FALSE]
          /\ DOMAIN Cell = {"state", "state_dirty", "props_dirty"})
    /\ [][/\ ret'.op = "take_state_dirty" =>
                Cell' = [Cell EXCEPT !.state_dirty = FALSE]
          /\ ret'.op = "take_props_dirty" =>
                Cell' = [Cell EXCEPT !.props_dirty = FALSE]
          /\ ret'.op = "update" =>
                \/ Cell' = Cell
                \/ Cell' = [Cell EXCEPT !.props_dirty = TRUE]
          /\ ret'.op = "set_state" =>
                /\ Cell'.props_dirty = Cell.props_dirty
                /\ pending' = pending + 1
                /\ (~ret'.changed /\ Cell'.state = Cell.state) => Cell' = Cell
          /\ ret'.op \in {"refresh_state", "receive"} => Cell' = Cell]_vars

\* take_state_dirty returned true and cleared its flag; props_dirty is
\* still set and the state in the cell is the one set_state wrote
C20_Witness ==
    /\ ret.op = "take_state_dirty" /\ ret.val
    /\ ~Cell.state_dirty /\ Cell.props_dirty
    /\ Cell.state # DefaultState

\* the removes of the old node the call was given
RemovesOfOld ==
    { i \in RemoveNotes : /\ log[i].kind = OldNode1.vnode.kind
                          /\ log[i].before = OldNode1.vnode.node }

\* C21: in every call no node is removed twice and no backing node is
\* detached twice, and the render target is never asked to detach a node
\* that is not under the parent named.  A patch whose old node differs from
\* the new one in key, in kind or in both removes the old node once, first
\* thing, and the patch of the new node's kind that follows gets no old
\* node; when it succeeds every node of the old subtree was removed once
\* and every backing node of it detached once.  A patch whose old node has
\* the new one's key and kind does not remove it and hands it to the kind's
\* patch.
C21_ReplacedRemovedOnce ==
    /\ \A i, j \in RemoveNotes :
        (/\ log[i].kind = log[j].kind /\ log[i].before = log[j].before
         /\ log[i].before # None) => i = j
    /\ \A i, j \in Detached : log[i].h = log[j].h => i = j
    /\ \A j \in Detached :
        ~log[j].ok => Contains(dom[log[j].parent].kids, log[j].h)
    /\ PatchedOld =>
        IF Mismatch
        THEN /\ RemovesOfOld = {1}
             /\ PatchNotes # {} =>
                    /\ ~log[Min(PatchNotes)].old
                    /\ \A i \in 2..(Min(PatchNotes) - 1) :
                            i \in RemoveNotes \/ i \in Detached
                                \/ log[i].op = "hook"
             /\ ret.ok =>
                    /\ Cardinality(RemoveNotes) = NodeCount(OldNode1.vnode)
                    /\ Cardinality(Detached) = Len(OwnLinks(OldNode1.vnode))
                    /\ { log[j].h : j \in Detached }
                            = Range(OwnLinks(OldNode1.vnode))
        ELSE /\ RemovesOfOld = {}
             /\ log[1].op = "patch" /\ log[1].old
             /\ log[1].kind = OldNode1.vnode.kind

\* a keyed Element was patched with an unkeyed Text: key and kind differ,
\* and the Element and its child were removed once each
C21_Witness ==
    /\ PatchedOld /\ ret.ok
    /\ ~SameSlot(NewNode1.key, OldNode1.key)
    /\ OldNode1.vnode.kind = "Element" /\ NewNode1.vnode.kind = "Text"
    /\ Cardinality(RemoveNotes) = 2 /\ Cardinality(Detached) = 2
    /\ RemovesOfOld = {1}

\* the key is the same and the kind differs: only the kinds' level removes
C21_WitnessSameKey ==
    /\ PatchedOld /\ ret.ok
    /\ OldNode1.key # None /\ SameSlot(NewNode1.key, OldNode1.key)
    /\ OldNode1.vnode.kind = "Text" /\ NewNode1.vnode.kind = "Component"
    /\ RemoveNotes = {1} /\ Cardinality(Detached) = 1

=============================================================================
